---- MODULE Spec2Model ----
(***************************************************************************)
(* helm-scan: render a Helm chart, walk the rendered manifest for          *)
(* container images, scan every image with grype and/or trivy, count the   *)
(* findings per severity and report rows plus totals.                      *)
(*                                                                         *)
(* Three scripts are modelled side by side:                                *)
(*   "hs"    src/helm-scan.py        grype and trivy compared, per image   *)
(*   "trivy" src/helm-scan-trivy.py  trivy only, per image                 *)
(*   "grype" src/helm-scan-grype.py  grype only, per container             *)
(*                                                                         *)
(* Python values are modelled as follows.  A dict is a function whose      *)
(* domain is its set of keys; a list is a sequence; a str that the code    *)
(* transforms (a severity) is a tagged sequence of one-character strings,  *)
(* None is the tagged value NoneV; a str is a tagged sequence of           *)
(* one-character strings, so that capitalize() and sorted() are computed   *)
(* character by character.  Values are assumed to have the types the       *)
(* scanners and Kubernetes schemas give them (a spec is a mapping, a       *)
(* containers entry is a list of mappings, scanner JSON is an object).     *)
(***************************************************************************)
EXTENDS Integers, Sequences, FiniteSets, TLC

VARIABLES
    \* summarize applied to a list of findings
    sm_pc, sm_variant, sm_matches, sm_result,
    \* the manifest walker applied to a manifest
    wk_pc, wk_variant, wk_manifest, wk_out,
    \* one run of main()
    pc, variant, chart, refs, idx, report, total, exit_status, csv_file,
    invocations

sm_vars == <<sm_pc, sm_variant, sm_matches, sm_result>>
wk_vars == <<wk_pc, wk_variant, wk_manifest, wk_out>>
run_vars == <<pc, variant, chart, refs, idx, report, total, exit_status,
              csv_file, invocations>>
vars == <<sm_vars, wk_vars, run_vars>>

Variants == {"hs", "trivy", "grype"}

(***************************************************************************)
(* Bounds of the model.                                                    *)
(***************************************************************************)
MaxFindings == 3
MaxDocs == 2
MaxScanFindings == 1

(***************************************************************************)
(* Python values.                                                          *)
(***************************************************************************)
NoneV == [t |-> "none", v |-> <<>>]
Str(chars) == [t |-> "str", v |-> chars]
EmptyDict == [k \in {} |-> NoneV]

\* d.get(k, default)
Get(d, k, default) == IF k \in DOMAIN d THEN d[k] ELSE default

\* Python truthiness of None or a str
Truthy(x) == x.t = "str" /\ x.v # <<>>

\* x or y
Or(x, y) == IF Truthy(x) THEN x ELSE y

Lowers == <<"a","b","c","d","e","f","g","h","i","j","k","l","m",
            "n","o","p","q","r","s","t","u","v","w","x","y","z">>
Uppers == <<"A","B","C","D","E","F","G","H","I","J","K","L","M",
            "N","O","P","Q","R","S","T","U","V","W","X","Y","Z">>

ToUpper(c) ==
    IF \E i \in 1..Len(Lowers) : Lowers[i] = c
    THEN Uppers[CHOOSE i \in 1..Len(Lowers) : Lowers[i] = c]
    ELSE c

ToLower(c) ==
    IF \E i \in 1..Len(Uppers) : Uppers[i] = c
    THEN Lowers[CHOOSE i \in 1..Len(Uppers) : Uppers[i] = c]
    ELSE c

\* a slip: upper-cases the first character and leaves the rest as it is
Capitalize_first_only(s) ==
    [i \in 1..Len(s) |-> IF i = 1 THEN ToUpper(s[i]) ELSE s[i]]

\* str.capitalize(): first character upper-cased, the rest lower-cased;
\* nothing is stripped.
Capitalize(s) ==
    [i \in 1..Len(s) |-> IF i = 1 THEN ToUpper(s[i]) ELSE ToLower(s[i])]

Critical == <<"C","r","i","t","i","c","a","l">>
High == <<"H","i","g","h">>
Medium == <<"M","e","d","i","u","m">>
Low == <<"L","o","w">>
Canonical == <<Critical, High, Medium, Low>>
CanonicalSet == {Canonical[i] : i \in 1..Len(Canonical)}

(***************************************************************************)
(* summarize: one definition per script.  The result is                    *)
(* [raised |-> an exception left the function, cnt |-> the defaultdict].   *)
(***************************************************************************)
Inc(cnt, k) ==
    IF k \in DOMAIN cnt THEN [cnt EXCEPT ![k] = @ + 1] ELSE cnt @@ (k :> 1)

\* counts.get(sev, 0)
CountsGet(cnt, sev) == IF sev \in DOMAIN cnt THEN cnt[sev] ELSE 0

EmptyCnt == [k \in {} |-> 0]

\* helm-scan.py:  sev = m.get("vulnerability", {}).get("severity")
\*                      or m.get("Severity")
hs_severity(m) ==
    Or(Get(Get(m, "vulnerability", EmptyDict), "severity", NoneV),
       Get(m, "Severity", NoneV))

RECURSIVE hs_summarize_loop(_, _, _)
hs_summarize_loop(matches, i, cnt) ==
    IF i > Len(matches) THEN [raised |-> FALSE, cnt |-> cnt]
    ELSE LET sev == hs_severity(matches[i])
         IN IF ~Truthy(sev)
            THEN hs_summarize_loop(matches, i + 1, cnt)
            ELSE hs_summarize_loop(matches, i + 1, Inc(cnt, Capitalize(sev.v)))

hs_summarize(matches) == hs_summarize_loop(matches, 1, EmptyCnt)

\* helm-scan-trivy.py:  sev = m.get("Severity", "").capitalize()
\* None.capitalize() raises AttributeError.
RECURSIVE trivy_summarize_loop(_, _, _)
trivy_summarize_loop(matches, i, cnt) ==
    IF i > Len(matches) THEN [raised |-> FALSE, cnt |-> cnt]
    ELSE LET raw == Get(matches[i], "Severity", Str(<<>>))
         IN IF raw.t # "str"
            THEN [raised |-> TRUE, cnt |-> cnt]
            ELSE LET sev == Capitalize(raw.v)
                 IN IF sev \in CanonicalSet
                    THEN trivy_summarize_loop(matches, i + 1, Inc(cnt, sev))
                    ELSE trivy_summarize_loop(matches, i + 1, cnt)

trivy_summarize(matches) == trivy_summarize_loop(matches, 1, EmptyCnt)

\* helm-scan-grype.py:
\*   sev = (m.get("vulnerability", {}).get("severity") or "").capitalize()
RECURSIVE grype_summarize_loop(_, _, _)
grype_summarize_loop(matches, i, cnt) ==
    IF i > Len(matches) THEN [raised |-> FALSE, cnt |-> cnt]
    ELSE LET raw == Or(Get(Get(matches[i], "vulnerability", EmptyDict),
                           "severity", NoneV),
                       Str(<<>>))
             sev == Capitalize(raw.v)
         IN IF sev \in CanonicalSet
            THEN grype_summarize_loop(matches, i + 1, Inc(cnt, sev))
            ELSE grype_summarize_loop(matches, i + 1, cnt)

grype_summarize(matches) == grype_summarize_loop(matches, 1, EmptyCnt)

summarize(v, matches) ==
    CASE v = "hs" -> hs_summarize(matches)
      [] v = "trivy" -> trivy_summarize(matches)
      [] OTHER -> grype_summarize(matches)

\* The four counts main() reads out of summarize's result.
ReportedCounts(cnt) == [i \in 1..Len(Canonical) |-> CountsGet(cnt, Canonical[i])]

(***************************************************************************)
(* Findings a scanner can report.                                          *)
(***************************************************************************)
sevCRITICAL == <<"C","R","I","T","I","C","A","L">>
sevCriticalSp == <<"C","R","I","T","I","C","A","L"," ">>
sevhigh == <<"h","i","g","h">>
sevUnknown == <<"U","n","k","n","o","w","n">>

RawSeverities ==
    { Str(Critical), Str(sevCRITICAL), Str(sevCriticalSp), Str(sevhigh),
      Str(Low), Str(sevUnknown), Str(<<>>), NoneV }

\* a grype match and a trivy vulnerability carrying severity value s
GrypeMatch(s) == [vulnerability |-> [severity |-> s]]
TrivyVuln(s) == [Severity |-> s]

\* findings of every shape: with a severity value, or with the key missing
GrypeFindings == {GrypeMatch(s) : s \in RawSeverities} \cup {[vulnerability |-> EmptyDict]}
TrivyFindings == {TrivyVuln(s) : s \in RawSeverities} \cup {EmptyDict}

FindingsOf(v) ==
    CASE v = "hs" -> GrypeFindings \cup TrivyFindings
      [] v = "trivy" -> TrivyFindings
      [] OTHER -> GrypeFindings

(***************************************************************************)
(* Strings the walker compares and sorts.  sorted() orders str values by   *)
(* code point, character by character.                                     *)
(***************************************************************************)
\* the characters used, in code point order
CodePoints == <<" ", ".", "0", "1", "2", "7", ":">> \o Uppers \o Lowers

Ord(c) == CHOOSE i \in 1..Len(CodePoints) : CodePoints[i] = c

RECURSIVE LexLess(_, _)
LexLess(a, b) ==
    IF b = <<>> THEN FALSE
    ELSE IF a = <<>> THEN TRUE
    ELSE IF Ord(a[1]) < Ord(b[1]) THEN TRUE
    ELSE IF Ord(a[1]) > Ord(b[1]) THEN FALSE
    ELSE LexLess(Tail(a), Tail(b))

\* sorted(S) for a set S of str values
RECURSIVE Sorted(_)
Sorted(S) ==
    IF S = {} THEN <<>>
    ELSE LET m == CHOOSE x \in S : \A y \in S \ {x} : LexLess(x.v, y.v)
         IN <<m>> \o Sorted(S \ {m})

imgApp == Str(<<"a","p","p",":","1",".","0">>)
imgProxy == Str(<<"p","r","o","x","y",":","2",".","0">>)
imgRedis == Str(<<"r","e","d","i","s",":","7">>)
nWeb == Str(<<"w","e","b">>)
nSidecar == Str(<<"s","i","d","e","c","a","r">>)
nInit == Str(<<"i","n","i","t">>)
emptyStr == Str(<<>>)

(***************************************************************************)
(* Rendered manifests: what yaml.safe_load_all yields, a sequence of       *)
(* documents.  A document is [isdict, d]: a mapping d, or a non-mapping    *)
(* (a scalar, a list, an empty document).                                  *)
(***************************************************************************)
cWeb == [name |-> nWeb, image |-> imgApp]
cSidecar == [name |-> nSidecar, image |-> imgProxy]
cInit == [name |-> nInit, image |-> imgRedis]
cNoImage == [name |-> nWeb]
cNoName == [image |-> imgRedis]
cEmptyName == [name |-> emptyStr, image |-> imgRedis]
cEmptyImage == [name |-> nSidecar, image |-> emptyStr]

ContainerLists ==
    { <<cWeb, cSidecar>>, <<cSidecar>>, <<cNoImage, cWeb>>,
      <<cNoName, cSidecar>>, <<cEmptyName, cWeb>>, <<cSidecar, cEmptyImage>> }

InitLists == { <<cInit>> }

PodSpecs ==
    {[containers |-> cs] : cs \in ContainerLists}
    \cup {[initContainers |-> ic] : ic \in InitLists}
    \cup {[containers |-> cs, initContainers |-> ic] :
             cs \in ContainerLists, ic \in InitLists}

\* Deployment, StatefulSet, DaemonSet, Job: spec.template.spec
Workload(ps) == [isdict |-> TRUE, d |-> [spec |-> [template |-> [spec |-> ps]]]]
\* Pod: the pod spec is spec itself
BarePod(ps) == [isdict |-> TRUE, d |-> [spec |-> ps]]
\* CronJob: spec.jobTemplate.spec.template.spec
CronJob(ps) ==
    [isdict |-> TRUE,
     d |-> [spec |-> [jobTemplate |-> [spec |-> [template |-> [spec |-> ps]]]]]]
\* ConfigMap, Service, ...: a mapping with no spec, or a spec with no pods
ConfigMap == [isdict |-> TRUE, d |-> [data |-> EmptyDict]]
Scalar == [isdict |-> FALSE, d |-> EmptyDict]

Docs ==
    {Workload(ps) : ps \in PodSpecs} \cup {BarePod(ps) : ps \in PodSpecs}
    \cup {CronJob(ps) : ps \in PodSpecs} \cup {ConfigMap, Scalar}

(***************************************************************************)
(* The manifest walker: one definition per script.                         *)
(***************************************************************************)
\* img = c.get("image"); if img: images.add(img)      for c in a list
ImagesIn(list) ==
    {Get(list[i], "image", NoneV) : i \in 1..Len(list)} \ {x \in {NoneV, emptyStr} : TRUE}

\* for cname in ("containers", "initContainers"): for c in spec.get(cname, [])
ImagesOfSpec(spec) ==
    ImagesIn(Get(spec, "containers", <<>>)) \cup ImagesIn(Get(spec, "initContainers", <<>>))

\* sub = doc; for key in path: sub = sub.get(key, {})
RECURSIVE hs_sub(_, _)
hs_sub(sub, path) ==
    IF path = <<>> THEN sub
    ELSE hs_sub(Get(sub, Head(path), EmptyDict), Tail(path))

\* helm-scan.py: the first of spec.template.spec, spec that has a
\* "containers" key; EmptyDict when neither has (the document is skipped)
hs_template(d) ==
    LET s1 == hs_sub(d, <<"spec", "template", "spec">>)
        s2 == hs_sub(d, <<"spec">>)
    IN IF "containers" \in DOMAIN s1 THEN s1
       ELSE IF "containers" \in DOMAIN s2 THEN s2
       ELSE EmptyDict

hs_doc_images(doc) ==
    IF ~doc.isdict THEN {} ELSE ImagesOfSpec(hs_template(doc.d))

hs_extract_images(yaml_docs) ==
    Sorted(UNION {hs_doc_images(yaml_docs[i]) : i \in 1..Len(yaml_docs)})

\* helm-scan-trivy.py:
\*   spec = doc.get("spec", {}); spec = spec.get("template", {}).get("spec", spec)
trivy_pod_spec(d) ==
    LET spec == Get(d, "spec", EmptyDict)
    IN Get(Get(spec, "template", EmptyDict), "spec", spec)

trivy_doc_images(doc) ==
    IF ~doc.isdict THEN {} ELSE ImagesOfSpec(trivy_pod_spec(doc.d))

trivy_extract_images(yaml_docs) ==
    Sorted(UNION {trivy_doc_images(yaml_docs[i]) : i \in 1..Len(yaml_docs)})

\* helm-scan-grype.py:
\*   spec = doc.get("spec", {}).get("template", {}).get("spec", {})
grype_pod_spec(d) ==
    Get(Get(Get(d, "spec", EmptyDict), "template", EmptyDict), "spec", EmptyDict)

\* a slip: `if img:` as in the image-only scripts
grype_list_containers_image_only(list) ==
    LET keep(c) == Truthy(Get(c, "image", NoneV))
        kept == SelectSeq(list, keep)
    IN [i \in 1..Len(kept) |-> <<Get(kept[i], "name", NoneV), kept[i].image>>]

\* if name and img: containers.append((name, img))     for c in a list
grype_list_containers(list) ==
    LET keep(c) == Truthy(Get(c, "name", NoneV)) /\ Truthy(Get(c, "image", NoneV))
        kept == SelectSeq(list, keep)
    IN [i \in 1..Len(kept) |-> <<kept[i].name, kept[i].image>>]

grype_doc_containers(doc) ==
    IF ~doc.isdict THEN <<>>
    ELSE LET spec == grype_pod_spec(doc.d)
         IN grype_list_containers(Get(spec, "containers", <<>>))
            \o grype_list_containers(Get(spec, "initContainers", <<>>))

RECURSIVE extract_containers(_)
extract_containers(yaml_docs) ==
    IF yaml_docs = <<>> THEN <<>>
    ELSE grype_doc_containers(Head(yaml_docs)) \o extract_containers(Tail(yaml_docs))

\* The walker of script v.  References are str values (an image) for "hs"
\* and "trivy", and pairs <<name, image>> for "grype".
Walker(v, yaml_docs) ==
    CASE v = "hs" -> hs_extract_images(yaml_docs)
      [] v = "trivy" -> trivy_extract_images(yaml_docs)
      [] OTHER -> extract_containers(yaml_docs)

\* the image a reference names
ImageOf(v, ref) == IF v = "grype" THEN ref[2] ELSE ref

(***************************************************************************)
(* Scanner processes.  A finished process is [rc, stdout]; stdout is       *)
(* empty, text that is not JSON, or the JSON text of an object `data`.     *)
(***************************************************************************)
Stdout(kind, data) == [kind |-> kind, data |-> data]
Proc(rc, out) == [rc |-> rc, stdout |-> out]

\* what the invocation did, as the error taxonomy names it
Kind(proc) ==
    IF proc.rc # 0 THEN "nonzero"
    ELSE IF proc.stdout.kind = "empty" THEN "empty"
    ELSE IF proc.stdout.kind = "garbage" THEN "malformed"
    ELSE "ok"

\* for result in data.get("Results", []):
\*     vulns.extend(result.get("Vulnerabilities", []) or [])
RECURSIVE trivy_vulns(_)
trivy_vulns(results) ==
    IF results = <<>> THEN <<>>
    ELSE Get(Head(results), "Vulnerabilities", <<>>) \o trivy_vulns(Tail(results))

Returned(matches) == [raised |-> FALSE, matches |-> matches]
Raised == [raised |-> TRUE, matches |-> <<>>]

\* helm-scan.py scan_with_tool: only CalledProcessError is caught, and
\* json.loads sits inside the try
scan_with_tool(tool, proc) ==
    IF proc.rc # 0 THEN Returned(<<>>)
    ELSE IF proc.stdout.kind # "json" THEN Raised
    ELSE IF tool = "grype" THEN Returned(Get(proc.stdout.data, "matches", <<>>))
    ELSE Returned(trivy_vulns(Get(proc.stdout.data, "Results", <<>>)))

\* a slip: subprocess.run(check=True) outside any try
scan_with_trivy_uncaught(proc) ==
    IF proc.rc # 0 THEN Raised
    ELSE IF proc.stdout.kind # "json" THEN Returned(<<>>)
    ELSE Returned(trivy_vulns(Get(proc.stdout.data, "Results", <<>>)))

\* helm-scan-trivy.py scan_with_trivy: the three failures each return []
scan_with_trivy(proc) ==
    IF proc.rc # 0 THEN Returned(<<>>)
    ELSE IF proc.stdout.kind = "empty" THEN Returned(<<>>)
    ELSE IF proc.stdout.kind # "json" THEN Returned(<<>>)
    ELSE Returned(trivy_vulns(Get(proc.stdout.data, "Results", <<>>)))

\* helm-scan-grype.py scan_with_grype: only CalledProcessError is caught
scan_with_grype(proc) ==
    IF proc.rc # 0 THEN Returned(<<>>)
    ELSE IF proc.stdout.kind # "json" THEN Raised
    ELSE Returned(Get(proc.stdout.data, "matches", <<>>))

\* the scan operation of script v for backend tool
Scan(v, tool, proc) ==
    CASE v = "hs" -> scan_with_tool(tool, proc)
      [] v = "trivy" -> scan_with_trivy(proc)
      [] OTHER -> scan_with_grype(proc)

\* the backends each script runs, in the order it runs them
Tools(v) ==
    CASE v = "hs" -> <<"grype", "trivy">>
      [] v = "trivy" -> <<"trivy">>
      [] OTHER -> <<"grype">>

ToolSet(v) == {Tools(v)[i] : i \in 1..Len(Tools(v))}

(***************************************************************************)
(* What the scanners answer during a run.                                  *)
(***************************************************************************)
RECURSIVE SeqsUpTo(_, _)
SeqsUpTo(S, n) ==
    IF n = 0 THEN {<<>>}
    ELSE LET shorter == SeqsUpTo(S, n - 1)
         IN shorter \cup {Append(q, x) : q \in {r \in shorter : Len(r) = n - 1}, x \in S}

\* In a run the scanners report findings with the severities of their own
\* vocabularies, in either letter case; what summarize does with any other
\* value is the subject of SumSpec.
RunSeverities == {Str(Critical), Str(sevhigh)}

RunFindings(tool) ==
    IF tool = "grype" THEN {GrypeMatch(s) : s \in RunSeverities}
    ELSE {TrivyVuln(s) : s \in RunSeverities}

JsonData(tool, findings) ==
    IF tool = "grype" THEN [matches |-> findings]
    ELSE [Results |-> <<[Target |-> "os"], [Vulnerabilities |-> findings]>>]

Procs(tool) ==
    {Proc(1, Stdout("empty", EmptyDict)),
     Proc(0, Stdout("empty", EmptyDict)),
     Proc(0, Stdout("garbage", EmptyDict)),
     Proc(0, Stdout("json", EmptyDict))}
    \cup {Proc(0, Stdout("json", JsonData(tool, f))) :
             f \in SeqsUpTo(RunFindings(tool), MaxScanFindings)}

\* get_image_size and get_package_count: a value, or "N/A" on any failure
Sizes == {"N/A", "7.3MB"}
PackageCounts == {"N/A", "12"}

(***************************************************************************)
(* Charts a run is given: helm template fails, or renders a manifest.      *)
(***************************************************************************)
psTwo == [containers |-> <<cWeb, cSidecar>>]
psOne == [containers |-> <<cSidecar>>]
psInit == [containers |-> <<cWeb, cSidecar>>, initContainers |-> <<cInit>>]

RunManifests ==
    { <<>>,
      <<ConfigMap, Scalar>>,
      <<CronJob(psTwo)>>,
      <<Workload(psTwo)>>,
      <<BarePod(psOne), Workload(psTwo)>>,
      <<Workload(psOne), Workload(psOne)>>,
      <<Workload(psInit)>> }

Charts ==
    {[render_ok |-> FALSE, docs |-> <<>>]}
    \cup {[render_ok |-> TRUE, docs |-> m] : m \in RunManifests}

(***************************************************************************)
(* main(): render, walk, scan every reference, report.                     *)
(*   pc: "start" -> "rendered" -> "scan" -> "done"   (exit status 0)       *)
(*       "exit"  sys.exit(1);  "crash"  an uncaught exception (status 1)   *)
(***************************************************************************)
Zero4 == [i \in 1..Len(Canonical) |-> 0]
Add4(a, b) == [i \in 1..Len(Canonical) |-> a[i] + b[i]]
NoCsv == [written |-> FALSE, rows |-> <<>>]

\* a slip: one accumulator shared by all backends
AddToTotal_shared(tot, tool, c) == [t \in DOMAIN tot |-> Add4(tot[t], c)]

\* total[tool][sev] += counts.get(sev, 0)      for the four severities
AddToTotal(tot, tool, c) == [tot EXCEPT ![tool] = Add4(@, c)]
Running == -1

\* render_helm_chart: subprocess.run(..., check=True); a failing helm
\* raises CalledProcessError, which nothing catches
Render ==
    /\ pc = "start"
    /\ IF chart.render_ok
       THEN pc' = "rendered" /\ exit_status' = exit_status
       ELSE pc' = "crash" /\ exit_status' = 1
    /\ UNCHANGED <<variant, chart, refs, idx, report, total, csv_file, invocations>>
    /\ UNCHANGED <<sm_vars, wk_vars>>

\* a slip: the `if not images: sys.exit(1)` check left out
Extract_no_check ==
    /\ pc = "rendered"
    /\ refs' = Walker(variant, chart.docs)
    /\ pc' = "scan"
    /\ idx' = 1
    /\ total' = [t \in ToolSet(variant) |-> Zero4]
    /\ report' = <<>>
    /\ UNCHANGED <<variant, chart, exit_status, csv_file, invocations>>
    /\ UNCHANGED <<sm_vars, wk_vars>>

\* images = extract_images(rendered); if not images: sys.exit(1)
\* then total and the row lists are initialised
Extract ==
    /\ pc = "rendered"
    /\ LET found == Walker(variant, chart.docs)
       IN /\ refs' = found
          /\ IF found = <<>>
             THEN pc' = "exit" /\ exit_status' = 1
             ELSE pc' = "scan" /\ exit_status' = exit_status
    /\ idx' = 1
    /\ total' = [t \in ToolSet(variant) |-> Zero4]
    /\ report' = <<>>
    /\ UNCHANGED <<variant, chart, csv_file, invocations>>
    /\ UNCHANGED <<sm_vars, wk_vars>>

Invocation(i, tool, proc) == [i |-> i, tool |-> tool, kind |-> Kind(proc)]

\* helm-scan.py, the body of `for tool in ("grype", "trivy")`, from tool
\* number t on: scan, summarize, fill the row and add to total[tool].
\* acc = [raised, counts, total, log]
RECURSIVE hs_tools_loop(_, _, _, _)
hs_tools_loop(i, procs, t, acc) ==
    IF t > Len(Tools("hs")) THEN acc
    ELSE LET tool == Tools("hs")[t]
             log == Append(acc.log, Invocation(i, tool, procs[tool]))
             res == scan_with_tool(tool, procs[tool])
             s == hs_summarize(res.matches)
             c == ReportedCounts(s.cnt)
         IN IF res.raised \/ s.raised
            THEN [acc EXCEPT !.raised = TRUE, !.log = log]
            ELSE hs_tools_loop(i, procs, t + 1,
                     [raised |-> FALSE,
                      counts |-> [acc.counts EXCEPT ![tool] = c],
                      total |-> AddToTotal(acc.total, tool, c),
                      log |-> log])

\* helm-scan.py: one iteration of `for img in images`
hs_scan_image ==
    /\ pc = "scan" /\ variant = "hs" /\ idx <= Len(refs)
    /\ \E procs \in [ToolSet("hs") -> Procs("grype") \cup Procs("trivy")] :
         /\ \A t \in ToolSet("hs") : procs[t] \in Procs(t)
         /\ LET img == refs[idx]
                acc == hs_tools_loop(idx, procs, 1,
                          [raised |-> FALSE,
                           counts |-> [t \in ToolSet("hs") |-> Zero4],
                           total |-> total,
                           log |-> invocations])
            IN /\ invocations' = acc.log
               /\ total' = acc.total
               /\ IF acc.raised
                  THEN /\ pc' = "crash" /\ exit_status' = 1
                       /\ UNCHANGED <<report, idx>>
                  ELSE /\ report' = Append(report, [Image |-> img, counts |-> acc.counts])
                       /\ idx' = idx + 1
                       /\ UNCHANGED <<pc, exit_status>>
    /\ UNCHANGED <<variant, chart, refs, csv_file>>
    /\ UNCHANGED <<sm_vars, wk_vars>>

\* helm-scan-trivy.py: one iteration of `for img in images`
trivy_scan_image ==
    /\ pc = "scan" /\ variant = "trivy" /\ idx <= Len(refs)
    /\ \E proc \in Procs("trivy") :
         LET img == refs[idx]
             res == scan_with_trivy(proc)
             s == trivy_summarize(res.matches)
             c == ReportedCounts(s.cnt)
         IN /\ invocations' = Append(invocations, Invocation(idx, "trivy", proc))
            /\ IF res.raised \/ s.raised
               THEN /\ pc' = "crash" /\ exit_status' = 1
                    /\ UNCHANGED <<report, total, idx>>
               ELSE /\ report' = Append(report, [Image |-> img, counts |-> [trivy |-> c]])
                    /\ total' = AddToTotal(total, "trivy", c)
                    /\ idx' = idx + 1
                    /\ UNCHANGED <<pc, exit_status>>
    /\ UNCHANGED <<variant, chart, refs, csv_file>>
    /\ UNCHANGED <<sm_vars, wk_vars>>

\* helm-scan-grype.py: one iteration of `for cname, img in containers`
grype_scan_container ==
    /\ pc = "scan" /\ variant = "grype" /\ idx <= Len(refs)
    /\ \E proc \in Procs("grype"), size \in Sizes, pkg_count \in PackageCounts :
         LET cname == refs[idx][1]
             img == refs[idx][2]
             res == scan_with_grype(proc)
             s == grype_summarize(res.matches)
             c == ReportedCounts(s.cnt)
             row == [Container |-> cname, Image |-> img, Size |-> size,
                     Packages |-> pkg_count, counts |-> [grype |-> c]]
         IN /\ invocations' = Append(invocations, Invocation(idx, "grype", proc))
            /\ IF res.raised \/ s.raised
               THEN /\ pc' = "crash" /\ exit_status' = 1
                    /\ UNCHANGED <<report, total, idx>>
               ELSE /\ report' = Append(report, row)
                    /\ total' = AddToTotal(total, "grype", row.counts["grype"])
                    /\ idx' = idx + 1
                    /\ UNCHANGED <<pc, exit_status>>
    /\ UNCHANGED <<variant, chart, refs, csv_file>>
    /\ UNCHANGED <<sm_vars, wk_vars>>

\* after the loop: the tables are printed and the CSV file is written
Report ==
    /\ pc = "scan" /\ idx > Len(refs)
    /\ csv_file' = [written |-> TRUE, rows |-> report]
    /\ pc' = "done"
    /\ exit_status' = 0
    /\ UNCHANGED <<variant, chart, refs, idx, report, total, invocations>>
    /\ UNCHANGED <<sm_vars, wk_vars>>

RunInit ==
    /\ pc = "start"
    /\ variant \in Variants
    /\ chart \in Charts
    /\ refs = <<>>
    /\ idx = 1
    /\ report = <<>>
    /\ total = [t \in ToolSet(variant) |-> Zero4]
    /\ exit_status = Running
    /\ csv_file = NoCsv
    /\ invocations = <<>>

\* the run is not being modelled
RunOff ==
    /\ pc = "off"
    /\ variant = "hs"
    /\ chart = [render_ok |-> FALSE, docs |-> <<>>]
    /\ refs = <<>>
    /\ idx = 1
    /\ report = <<>>
    /\ total = [t \in ToolSet("hs") |-> Zero4]
    /\ exit_status = Running
    /\ csv_file = NoCsv
    /\ invocations = <<>>

(***************************************************************************)
(* summarize on its own: a list of findings is put together, then the      *)
(* summarize of one script is applied to it.                               *)
(***************************************************************************)
NoResult == [raised |-> FALSE, cnt |-> EmptyCnt]

SumInit ==
    /\ sm_pc = "input"
    /\ sm_variant \in Variants
    /\ sm_matches = <<>>
    /\ sm_result = NoResult

SumAddFinding ==
    /\ sm_pc = "input"
    /\ Len(sm_matches) < MaxFindings
    /\ \E m \in FindingsOf(sm_variant) : sm_matches' = Append(sm_matches, m)
    /\ UNCHANGED <<sm_pc, sm_variant, sm_result>>
    /\ UNCHANGED <<wk_vars, run_vars>>

SumApply ==
    /\ sm_pc = "input"
    /\ sm_result' = summarize(sm_variant, sm_matches)
    /\ sm_pc' = "done"
    /\ UNCHANGED <<sm_variant, sm_matches>>
    /\ UNCHANGED <<wk_vars, run_vars>>

SumOff ==
    /\ sm_pc = "off"
    /\ sm_variant = "hs"
    /\ sm_matches = <<>>
    /\ sm_result = NoResult

(***************************************************************************)
(* The walker on its own: a manifest is put together, then the walker of   *)
(* one script is applied to it.                                            *)
(***************************************************************************)
WalkInit ==
    /\ wk_pc = "input"
    /\ wk_variant \in Variants
    /\ wk_manifest = <<>>
    /\ wk_out = <<>>

WalkAddDoc ==
    /\ wk_pc = "input"
    /\ Len(wk_manifest) < MaxDocs
    /\ \E doc \in Docs : wk_manifest' = Append(wk_manifest, doc)
    /\ UNCHANGED <<wk_pc, wk_variant, wk_out>>
    /\ UNCHANGED <<sm_vars, run_vars>>

WalkApply ==
    /\ wk_pc = "input"
    /\ wk_out' = Walker(wk_variant, wk_manifest)
    /\ wk_pc' = "done"
    /\ UNCHANGED <<wk_variant, wk_manifest>>
    /\ UNCHANGED <<sm_vars, run_vars>>

WalkOff ==
    /\ wk_pc = "off"
    /\ wk_variant = "hs"
    /\ wk_manifest = <<>>
    /\ wk_out = <<>>

(***************************************************************************)
(* Specifications.                                                         *)
(***************************************************************************)
Init == RunInit /\ SumOff /\ WalkOff
Next ==
    \/ Render
    \/ Extract
    \/ hs_scan_image
    \/ trivy_scan_image
    \/ grype_scan_container
    \/ Report
Spec == Init /\ [][Next]_vars

SumSpecInit == SumInit /\ RunOff /\ WalkOff
SumSpecNext == SumAddFinding \/ SumApply
SumSpec == SumSpecInit /\ [][SumSpecNext]_vars

WalkSpecInit == WalkInit /\ RunOff /\ SumOff
WalkSpecNext == WalkAddDoc \/ WalkApply
WalkSpec == WalkSpecInit /\ [][WalkSpecNext]_vars

(***************************************************************************)
(* Properties of a run (specification Spec).                               *)
(***************************************************************************)
RECURSIVE ColumnSum(_, _, _)
\* the sum over rows of the count for backend tool and severity number s
ColumnSum(rows, tool, s) ==
    IF rows = <<>> THEN 0
    ELSE Head(rows).counts[tool][s] + ColumnSum(Tail(rows), tool, s)

Exited == pc \in {"done", "exit", "crash"}

\* the reference a report row was made for
RowRef(v, row) == IF v = "grype" THEN <<row.Container, row.Image>> ELSE row.Image

\* C1: after every iteration of the scan loop and when the report is
\* produced, for every active backend and every severity the running total
\* equals the sum of that backend's counts over the rows produced so far;
\* so one backend's findings never reach another backend's totals.
C1_TotalsAreRowSums ==
    /\ pc \in {"scan", "done"} =>
         \A tool \in ToolSet(variant), sev \in 1..Len(Canonical) :
            total[tool][sev] = ColumnSum(report, tool, sev)
    /\ csv_file.written =>
         \A tool \in ToolSet(variant), sev \in 1..Len(Canonical) :
            total[tool][sev] = ColumnSum(csv_file.rows, tool, sev)

\* C1 witness: a finished comparison run of several rows in which the two
\* backends' totals differ and a total adds up counts of more than one row
C1_Witness ==
    /\ pc = "done" /\ variant = "hs" /\ Len(report) >= 2
    /\ total["grype"] # total["trivy"]
    /\ total["grype"][1] >= 2
    /\ total["trivy"][2] >= 1

FailureKinds == {"nonzero", "empty", "malformed"}

\* C2: whichever of the three failures a scanner invocation ends in
\* (non-zero exit, empty output, output that is not JSON), the scan returns
\* no findings instead of raising: the run does not crash, and the row of
\* that image shows zero for that backend.
C2_ScanFailuresAreAbsorbed ==
    \A k \in 1..Len(invocations) :
        invocations[k].kind \in FailureKinds =>
            /\ pc # "crash"
            /\ invocations[k].i <= Len(report) =>
                 report[invocations[k].i].counts[invocations[k].tool] = Zero4

OnlyNonzeroFailures ==
    \A k \in 1..Len(invocations) : invocations[k].kind \in {"ok", "nonzero"}

FailedNonzero(i, tool) ==
    \E k \in 1..Len(invocations) :
        invocations[k] = [i |-> i, tool |-> tool, kind |-> "nonzero"]

\* C3: when rendering succeeds, the walker returns n >= 1 references and
\* the only scans that fail are scans that exit non-zero, the run never
\* crashes, every reference is scanned, the run ends with exit status 0 and
\* the report has exactly n rows, row i made for reference i, with zero
\* counts for every backend whose scan of that reference failed.
C3_NonzeroExitsLeaveFullReport ==
    (chart.render_ok /\ Walker(variant, chart.docs) # <<>> /\ OnlyNonzeroFailures) =>
        /\ pc # "crash" /\ pc # "exit"
        /\ pc \in {"scan", "done"} =>
             /\ refs = Walker(variant, chart.docs)
             /\ Len(report) = idx - 1
             /\ Len(invocations) = Len(report) * Len(Tools(variant))
             /\ \A i \in 1..Len(report) :
                  /\ RowRef(variant, report[i]) = refs[i]
                  /\ \A tool \in ToolSet(variant) :
                       FailedNonzero(i, tool) => report[i].counts[tool] = Zero4
        /\ pc = "scan" => idx <= Len(refs) + 1
        /\ Exited =>
             /\ exit_status = 0
             /\ csv_file = [written |-> TRUE, rows |-> report]
             /\ Len(report) = Len(refs)

\* C3 witness: a finished run over three references in which one scan
\* exited non-zero and a scan of a later reference reported findings
C3_Witness ==
    /\ pc = "done" /\ Len(refs) = 3 /\ OnlyNonzeroFailures
    /\ \E t \in ToolSet(variant) : FailedNonzero(1, t)
    /\ \E t \in ToolSet(variant) : report[3].counts[t] # Zero4

\* C4: when helm fails, or renders a manifest in which the walker finds no
\* reference, the run ends with a non-zero exit status, starts no scanner
\* at any point and writes no CSV file; a CSV file is written only in runs
\* that found at least one reference.
C4_FatalRunsScanNothing ==
    /\ ~chart.render_ok =>
         /\ pc \in {"start", "crash"}
         /\ invocations = <<>> /\ ~csv_file.written
         /\ Exited => exit_status = 1
    /\ (chart.render_ok /\ Walker(variant, chart.docs) = <<>>) =>
         /\ pc \in {"start", "rendered", "exit"}
         /\ invocations = <<>> /\ ~csv_file.written
         /\ Exited => exit_status = 1
    /\ Exited => exit_status # Running
    /\ csv_file.written =>
         chart.render_ok /\ refs # <<>> /\ refs = Walker(variant, chart.docs)

\* C4 witness: helm rendered documents, the walker found no reference in
\* them, and the run has exited
C4_Witness ==
    /\ pc = "exit" /\ chart.render_ok /\ chart.docs # <<>> /\ refs = <<>>

(***************************************************************************)
(* Properties of summarize (specification SumSpec).                        *)
(***************************************************************************)
CaseFold(s) == [i \in 1..Len(s) |-> ToLower(s[i])]

RECURSIVE TrimLeft(_)
TrimLeft(s) == IF s # <<>> /\ Head(s) = " " THEN TrimLeft(Tail(s)) ELSE s

RECURSIVE TrimRight(_)
TrimRight(s) ==
    IF s # <<>> /\ s[Len(s)] = " " THEN TrimRight(SubSeq(s, 1, Len(s) - 1)) ELSE s

Trim(s) == TrimRight(TrimLeft(s))

\* severity value x is label L up to letter case
IsLabel(x, L) == x.t = "str" /\ CaseFold(x.v) = CaseFold(L)

\* severity value x is label L up to letter case and surrounding blanks
IsLabelTrimmed(x, L) == x.t = "str" /\ CaseFold(Trim(x.v)) = CaseFold(L)

\* the finding carries a severity key whose value is null
HasNullSeverity(m) ==
    \/ "Severity" \in DOMAIN m /\ m["Severity"] = NoneV
    \/ /\ "vulnerability" \in DOMAIN m
       /\ "severity" \in DOMAIN m["vulnerability"]
       /\ m["vulnerability"]["severity"] = NoneV

\* the severity value a finding carries for script v (NoneV: key missing)
RawSeverity(v, m) ==
    CASE v = "trivy" -> Get(m, "Severity", NoneV)
      [] v = "grype" -> Get(Get(m, "vulnerability", EmptyDict), "severity", NoneV)
      [] OTHER -> hs_severity(m)

Reported == ReportedCounts(sm_result.cnt)

\* C5: summarize never raises, and the four reported counts are exactly the
\* numbers of findings whose severity is Critical, High, Medium and Low; a
\* finding with any other, a missing, an empty or a null severity adds to
\* no reported count.
C5_CountsAreExact ==
    sm_pc = "done" =>
        /\ ~sm_result.raised
        /\ \A i \in 1..Len(Canonical) :
             Reported[i] =
                Cardinality({j \in 1..Len(sm_matches) :
                    IsLabel(RawSeverity(sm_variant, sm_matches[j]), Canonical[i])})

\* C6 as stated: a raw severity equal to a label after case-folding and
\* trimming is counted in that label's bucket.
C6_CaseAndBlankInsensitive ==
    (sm_pc = "done" /\ \A j \in 1..Len(sm_matches) : ~HasNullSeverity(sm_matches[j])) =>
        \A i \in 1..Len(Canonical) :
            Reported[i] =
                Cardinality({j \in 1..Len(sm_matches) :
                    IsLabelTrimmed(RawSeverity(sm_variant, sm_matches[j]), Canonical[i])})

\* C6 as amended: for findings whose severity values are strings (or
\* absent), a raw severity is counted in the bucket of label L exactly when
\* it equals L after case-folding; nothing is trimmed, so a severity with
\* surrounding blanks is counted in no reported bucket.
C6_CaseInsensitiveOnly ==
    (sm_pc = "done" /\ \A j \in 1..Len(sm_matches) : ~HasNullSeverity(sm_matches[j])) =>
        /\ ~sm_result.raised
        /\ \A i \in 1..Len(Canonical) :
             LET folded == {j \in 1..Len(sm_matches) :
                              IsLabel(RawSeverity(sm_variant, sm_matches[j]), Canonical[i])}
                 blanked == {j \in 1..Len(sm_matches) :
                              IsLabelTrimmed(RawSeverity(sm_variant, sm_matches[j]), Canonical[i])}
             IN /\ Reported[i] = Cardinality(folded)
                /\ Reported[i] = Cardinality(blanked) - Cardinality(blanked \ folded)

\* C6 witness: "Critical", "CRITICAL" and "CRITICAL " summarized together,
\* two of them counted as Critical
C6_Witness ==
    /\ sm_pc = "done" /\ Len(sm_matches) = 3
    /\ {RawSeverity(sm_variant, sm_matches[j]) : j \in 1..3}
          = {Str(Critical), Str(sevCRITICAL), Str(sevCriticalSp)}
    /\ Reported = <<2, 0, 0, 0>>

(***************************************************************************)
(* Properties of the walker (specification WalkSpec).                      *)
(***************************************************************************)
HasPodSpec(doc) ==
    \E ps \in PodSpecs : doc \in {Workload(ps), BarePod(ps), CronJob(ps)}

\* the pod spec a document was built around, wherever it sits
DocPodSpec(doc) ==
    IF HasPodSpec(doc)
    THEN CHOOSE ps \in PodSpecs : doc \in {Workload(ps), BarePod(ps), CronJob(ps)}
    ELSE EmptyDict

\* every container entry a document holds
DocEntries(doc) ==
    Get(DocPodSpec(doc), "containers", <<>>) \o Get(DocPodSpec(doc), "initContainers", <<>>)

HasName(c) == Truthy(Get(c, "name", NoneV))
HasImage(c) == Truthy(Get(c, "image", NoneV))
KeepFull(c) == HasName(c) /\ HasImage(c)

\* the document with the container entries failing Keep taken out
StripDoc(doc, Keep(_)) ==
    IF ~HasPodSpec(doc) THEN doc
    ELSE LET ps == DocPodSpec(doc)
             stripped == [k \in DOMAIN ps |-> SelectSeq(ps[k], Keep)]
         IN IF doc = Workload(ps) THEN Workload(stripped)
            ELSE IF doc = BarePod(ps) THEN BarePod(stripped)
            ELSE CronJob(stripped)

StripManifest(m, Keep(_)) == [a \in 1..Len(m) |-> StripDoc(m[a], Keep)]

Reverse(m) == [a \in 1..Len(m) |-> m[Len(m) + 1 - a]]

\* a Deployment-like document every script reads its containers from
PlainWorkload(doc) ==
    \E ps \in PodSpecs : doc = Workload(ps) /\ "containers" \in DOMAIN ps

FullImages(doc) ==
    {DocEntries(doc)[e].image : e \in {x \in 1..Len(DocEntries(doc)) : KeepFull(DocEntries(doc)[x])}}

\* C7: no two entries of the walker's output are the same reference, even
\* when a document is emitted twice, and an image used by containers of two
\* different workloads appears once for each of them.
C7_RefsAreDistinctTuples ==
    wk_pc = "done" =>
        /\ \A i, j \in 1..Len(wk_out) : i # j => wk_out[i] # wk_out[j]
        /\ \A a, b \in 1..Len(wk_manifest) :
             (a < b /\ wk_manifest[a] # wk_manifest[b]
                /\ PlainWorkload(wk_manifest[a]) /\ PlainWorkload(wk_manifest[b])) =>
                 \A x \in FullImages(wk_manifest[a]) \cap FullImages(wk_manifest[b]) :
                    Cardinality({k \in 1..Len(wk_out) : ImageOf(wk_variant, wk_out[k]) = x}) >= 2

\* the reference comes from a container entry that has what Keep asks for
FromEntry(ref, Keep(_)) ==
    \E a \in 1..Len(wk_manifest) : \E e \in 1..Len(DocEntries(wk_manifest[a])) :
        LET c == DocEntries(wk_manifest[a])[e]
        IN /\ Keep(c)
           /\ c.image = ImageOf(wk_variant, ref)
           /\ wk_variant = "grype" => Get(c, "name", NoneV) = ref[1]

\* C8 as stated: every reference comes from a container entry with both a
\* non-empty name and a non-empty image; an entry lacking either produces
\* nothing and does not disturb the other entries.
C8_RefsNeedNameAndImage ==
    wk_pc = "done" =>
        /\ \A k \in 1..Len(wk_out) : FromEntry(wk_out[k], KeepFull)
        /\ wk_out = Walker(wk_variant, StripManifest(wk_manifest, KeepFull))

\* what a script needs of a container entry to record it
Recorded(c) == IF wk_variant = "grype" THEN KeepFull(c) ELSE HasImage(c)

\* C8 as amended: every reference carries a non-empty image and, in the
\* per-container script, a non-empty container name; an entry lacking an
\* image (in the per-container script: an image or a name), or with an
\* empty one, produces no reference and no error and leaves the other
\* entries' references as they are.  The image-only scripts record the
\* image of an entry that has no name.
C8_RefsCarryWhatIsRecorded ==
    wk_pc = "done" =>
        /\ \A k \in 1..Len(wk_out) :
             /\ Truthy(ImageOf(wk_variant, wk_out[k]))
             /\ wk_variant = "grype" => Truthy(wk_out[k][1])
             /\ FromEntry(wk_out[k], Recorded)
        /\ wk_out = Walker(wk_variant, StripManifest(wk_manifest, Recorded))

\* C8 witness: the per-container walker met an entry without a name next
\* to a complete entry and emitted the complete one alone
C8_Witness ==
    /\ wk_pc = "done" /\ wk_variant = "grype"
    /\ wk_manifest = <<Workload([containers |-> <<cNoName, cSidecar>>])>>
    /\ wk_out = << <<nSidecar, imgProxy>> >>

\* the pod spec C9 describes: spec.template.spec when present, otherwise
\* spec when it has a containers key
ClaimedPodSpec(doc) ==
    LET spec == Get(doc.d, "spec", EmptyDict)
        tmpl == Get(spec, "template", EmptyDict)
    IN IF ~doc.isdict THEN EmptyDict
       ELSE IF "spec" \in DOMAIN tmpl THEN tmpl["spec"]
       ELSE IF "containers" \in DOMAIN spec THEN spec
       ELSE EmptyDict

RECURSIVE ClaimedContainers(_)
ClaimedContainers(m) ==
    IF m = <<>> THEN <<>>
    ELSE LET ps == ClaimedPodSpec(Head(m))
         IN grype_list_containers(Get(ps, "containers", <<>>))
            \o grype_list_containers(Get(ps, "initContainers", <<>>))
            \o ClaimedContainers(Tail(m))

\* every pod spec of the manifest has a containers key, as Kubernetes
\* requires, so that "present" and "contains a containers key" agree
PodSpecsHaveContainers ==
    \A a \in 1..Len(wk_manifest) :
        HasPodSpec(wk_manifest[a]) => "containers" \in DOMAIN DocPodSpec(wk_manifest[a])

\* C9: the walker reads containers and initContainers of spec.template.spec
\* when that is present, otherwise of spec when spec has a containers key,
\* and nothing from any other document; so a bare Pod yields its
\* containers' references.
C9_PodSpecLocation ==
    (wk_pc = "done" /\ PodSpecsHaveContainers) =>
        wk_out =
            IF wk_variant = "grype" THEN ClaimedContainers(wk_manifest)
            ELSE Sorted(UNION {ImagesOfSpec(ClaimedPodSpec(wk_manifest[a])) :
                                  a \in 1..Len(wk_manifest)})

RefLess(v, x, y) ==
    IF v = "grype"
    THEN LexLess(x[1].v, y[1].v) \/ (x[1] = y[1] /\ LexLess(x[2].v, y[2].v))
    ELSE LexLess(x.v, y.v)

\* C10: the walker's output is in ascending order of its references and
\* does not depend on the order of the documents in the manifest.
C10_OutputIsSorted ==
    wk_pc = "done" =>
        /\ \A k \in 1..(Len(wk_out) - 1) : ~RefLess(wk_variant, wk_out[k + 1], wk_out[k])
        /\ wk_out = Walker(wk_variant, Reverse(wk_manifest))
====
